---- MODULE Spec2Model ----
(***************************************************************************)
(* Workflow submission endpoint of mlrun (api/api/endpoints/workflows.py): *)
(* the merge of a stored workflow with a request's override spec, the      *)
(* re-routing of schedule requests to the chief, and the runner            *)
(* orchestration.                                                          *)
(*                                                                         *)
(* Python values are encoded uniformly as records [k, s, m]:               *)
(*   k = "s": a scalar, s its token.  "None" is None, "" the empty string, *)
(*            "0" the integer zero, "False" the boolean; any other token   *)
(*            is a truthy scalar.                                          *)
(*   k = "m": a mapping (dict, or a pydantic model turned into a dict),    *)
(*            m the function from its keys to values.  A key that is       *)
(*            absent from a dict is absent from DOMAIN m.                  *)
(***************************************************************************)
EXTENDS Naturals, Sequences, FiniteSets, TLC

VARIABLES
    store,       \* the project as the project store holds it: [workflows, default_image]
    role,        \* mlrun.mlconf.httpdb.clusterization.role of the node running the handler
    origin,      \* role of the node that received the submission from the client
    pc,          \* position of the handler in submit_workflow
    project,     \* the project object of the request: [workflows, default_image]
    name,        \* path parameter name
    request,     \* workflow_request: [spec, arguments, run_name]
    wfspec,      \* workflow_spec returned by _fill_workflow_missing_fields_from_project
    runner,      \* name of the workflow_runner returned by create_runner
    calls,       \* calls to the collaborators made for the submission, in order
    response,    \* what the caller receives
    registered,  \* roles of the nodes on which WorkflowRunners().schedule succeeded, ever
    nsub,        \* submissions received so far
    received,    \* the submission as the client sent it: [name, request]
    payload,     \* what the chief client sent to the chief: [name, json]
    chief_response, \* the response of the chief's handler to a forwarded submission
    m_pc,        \* normalisation harness: position
    m_project,   \* normalisation harness: project.spec.workflows, after the call
    m_before,    \* normalisation harness: project.spec.workflows, before the call
    m_name,      \* normalisation harness: workflow_name
    m_spec,      \* normalisation harness: spec argument
    m_arguments, \* normalisation harness: arguments argument
    m_out,       \* normalisation harness: outcome of the call
    m_again,     \* normalisation harness: the override merged once more onto the result
    runs,        \* run records of the execution backend: run uid -> [workflow_id]
    g_pc,        \* position of the handler in get_workflow_id
    g_reference, \* path parameter reference, a sequence of characters
    g_name,      \* path parameter name
    g_engine,    \* query parameter engine
    g_kind,      \* first component returned by parse_reference
    g_uid,       \* uid returned by parse_reference
    g_calls,     \* calls to the collaborators made for the resolution, in order
    g_result,    \* what the caller of get_workflow_id receives
    history,     \* the backend queries answered so far, with the run record each one saw
    nres         \* get_workflow_id requests received so far

vars == <<store, role, origin, pc, project, name, request, wfspec, runner, calls,
          response, registered, nsub, received, payload, chief_response,
          m_pc, m_project, m_before, m_name, m_spec, m_arguments, m_out, m_again,
          runs, g_pc, g_reference, g_name, g_engine, g_kind, g_uid, g_calls, g_result,
          history, nres>>

protoVars == <<store, role, origin, pc, project, name, request, wfspec, runner,
               calls, response, registered, nsub, received, payload, chief_response>>

mergeVars == <<m_pc, m_project, m_before, m_name, m_spec, m_arguments, m_out, m_again>>

refVars == <<runs, g_pc, g_reference, g_name, g_engine, g_kind, g_uid, g_calls, g_result,
             history, nres>>

---------------------------------------------------------------------------
(* Python values *)

EmptyFn == [x \in {} |-> x]

S(tok) == [k |-> "s", s |-> tok, m |-> EmptyFn]

M(f) == [k |-> "m", s |-> "", m |-> f]

None == S("None")

EmptyDict == M(EmptyFn)

IsMapping(v) == v.k = "m"

\* bool(v)
Truthy(v) == IF IsMapping(v) THEN DOMAIN v.m # {} ELSE v.s \notin {"None", "", "0", "False"}

\* dict.get(key, default)
Get(d, key, default) == IF key \in DOMAIN d.m THEN d.m[key] ELSE default

\* the exception raised when a non-dict is indexed or asked for .get
TypeError == [k |-> "e", s |-> "TypeError", m |-> EmptyFn]

---------------------------------------------------------------------------
(* The schema objects (mlrun.common.schemas) *)

\* the fields of WorkflowSpec that the endpoint reads or merges
Fields == {"name", "schedule", "image", "args", "ttl"}

\* building WorkflowSpec from the workflow dict: every field of the schema, None where the dict has no key
WorkflowSpec(workflow) == M([f \in Fields |-> Get(workflow, f, None)])

\* building WorkflowRequest from the JSON body: the spec, when the body has one, is
\* built as a WorkflowSpec
WorkflowRequest(json) ==
    [spec |-> IF json.spec = None THEN None ELSE WorkflowSpec(json.spec),
     arguments |-> json.arguments, run_name |-> json.run_name]

\* `if spec:` on Optional[WorkflowSpec]: a model instance is always true, None is false
SpecGiven(spec) == spec # None

---------------------------------------------------------------------------
(* _update_dict, lines 279-294 *)

RECURSIVE _update_dict(_, _)

\* as _update_dict, with `elif val is not None:` for `elif val:`
_update_dict_not_none(dict_1, dict_2) ==
    LET sets(key) == IsMapping(dict_2.m[key]) \/ dict_2.m[key] # None
    IN  IF ~IsMapping(dict_1)
        THEN IF \E key \in DOMAIN dict_2.m : sets(key) THEN TypeError ELSE dict_1
        ELSE LET sub(key) == _update_dict(Get(dict_1, key, EmptyDict), dict_2.m[key])
                 assigned == {key \in DOMAIN dict_2.m : sets(key)}
             IN  IF \E key \in assigned : IsMapping(dict_2.m[key]) /\ sub(key) = TypeError
                 THEN TypeError
                 ELSE M([key \in DOMAIN dict_1.m \cup assigned |->
                           IF key \in assigned
                           THEN IF IsMapping(dict_2.m[key]) THEN sub(key) ELSE dict_2.m[key]
                           ELSE dict_1.m[key]])

\* as _update_dict, with the recursion started from {} for dict_1.get(key, {})
_update_dict_from_empty(dict_1, dict_2) ==
    LET sets(key) == IsMapping(dict_2.m[key]) \/ Truthy(dict_2.m[key])
    IN  IF ~IsMapping(dict_1)
        THEN IF \E key \in DOMAIN dict_2.m : sets(key) THEN TypeError ELSE dict_1
        ELSE LET sub(key) == _update_dict(EmptyDict, dict_2.m[key])
                 assigned == {key \in DOMAIN dict_2.m : sets(key)}
             IN  IF \E key \in assigned : IsMapping(dict_2.m[key]) /\ sub(key) = TypeError
                 THEN TypeError
                 ELSE M([key \in DOMAIN dict_1.m \cup assigned |->
                           IF key \in assigned
                           THEN IF IsMapping(dict_2.m[key]) THEN sub(key) ELSE dict_2.m[key]
                           ELSE dict_1.m[key]])

_update_dict(dict_1, dict_2) ==
    LET sets(key) == IsMapping(dict_2.m[key]) \/ Truthy(dict_2.m[key])
    IN  IF ~IsMapping(dict_1)
        THEN \* dict_1.get(key, {}) on None or str came back: .get or item assignment raises
             IF \E key \in DOMAIN dict_2.m : sets(key) THEN TypeError ELSE dict_1
        ELSE LET sub(key) == _update_dict(Get(dict_1, key, EmptyDict), dict_2.m[key])
                 assigned == {key \in DOMAIN dict_2.m : sets(key)}
             IN  IF \E key \in assigned : IsMapping(dict_2.m[key]) /\ sub(key) = TypeError
                 THEN TypeError
                 ELSE M([key \in DOMAIN dict_1.m \cup assigned |->
                           IF key \in assigned
                           THEN IF IsMapping(dict_2.m[key]) THEN sub(key) ELSE dict_2.m[key]
                           ELSE dict_1.m[key]])

---------------------------------------------------------------------------
(* _get_workflow_by_name, lines 226-242: the position of the first workflow *)
(* of project.spec.workflows with that name, 0 when log_and_raise is reached *)

\* as _get_workflow_by_name, with the loop variable returned when nothing matched
_get_workflow_by_name_last(workflows, nm) ==
    LET hits == {i \in 1..Len(workflows) : workflows[i].m["name"] = S(nm)}
    IN  IF hits = {} THEN Len(workflows) ELSE CHOOSE i \in hits : \A j \in hits : i <= j

_get_workflow_by_name(workflows, nm) ==
    LET hits == {i \in 1..Len(workflows) : workflows[i].m["name"] = S(nm)}
    IN  IF hits = {} THEN 0 ELSE CHOOSE i \in hits : \A j \in hits : i <= j

---------------------------------------------------------------------------
(* _is_requested_schedule, lines 204-223: "yes", "no", or "not_found" when  *)
(* the lookup of line 222 raises                                            *)

_is_requested_schedule(nm, workflow_spec, workflows) ==
    IF SpecGiven(workflow_spec)
    THEN IF workflow_spec.m["schedule"] # None THEN "yes" ELSE "no"
    ELSE LET i == _get_workflow_by_name(workflows, nm)
         IN  IF i = 0 THEN "not_found"
             ELSE IF Truthy(Get(workflows[i], "schedule", None)) THEN "yes" ELSE "no"

---------------------------------------------------------------------------
(* _fill_workflow_missing_fields_from_project, lines 245-276.              *)
(* The outcome is [err, spec, workflows]: the exception raised ("" when    *)
(* none), the WorkflowSpec returned, and project.spec.workflows as the     *)
(* call leaves it.  shares: whether building WorkflowSpec from the workflow dict keeps the     *)
(* dict object it is given for args (a field typed as a bare dict) or      *)
(* builds a dict of its own.                                               *)

\* as Update, with the structural rule: a falsy value of e is skipped
UpdateTruthyOnly(d, e) ==
    M([key \in DOMAIN d.m \cup {x \in DOMAIN e.m : Truthy(e.m[x])} |->
         IF key \in DOMAIN e.m /\ Truthy(e.m[key]) THEN e.m[key] ELSE d.m[key]])

\* dict.update
Update(d, e) == M([key \in DOMAIN d.m \cup DOMAIN e.m |->
                     IF key \in DOMAIN e.m THEN e.m[key] ELSE d.m[key]])

_fill_workflow_missing_fields_from_project(workflows, workflow_name, spec, arguments, shares) ==
    LET i == _get_workflow_by_name(workflows, workflow_name)
        merged == IF SpecGiven(spec) THEN _update_dict(workflows[i], spec) ELSE workflows[i]
        workflow_spec == WorkflowSpec(merged)
        oldargs == workflow_spec.m["args"]
        newargs == Update(IF Truthy(oldargs) THEN oldargs ELSE EmptyDict, arguments)
        \* args.update writes through to the stored dict when the spec was built from
        \* the stored dict itself and `args or {}` kept the object it holds
        aliased == ~SpecGiven(spec) /\ shares /\ Truthy(oldargs)
    IN  IF i = 0 THEN [err |-> "not_found", spec |-> None, workflows |-> workflows]
        ELSE IF merged = TypeError
        THEN [err |-> "TypeError", spec |-> None, workflows |-> workflows]
        ELSE IF ~Truthy(arguments)
        THEN [err |-> "", spec |-> workflow_spec, workflows |-> workflows]
        ELSE [err |-> "",
              spec |-> M([workflow_spec.m EXCEPT !["args"] = newargs]),
              workflows |-> IF aliased
                            THEN [workflows EXCEPT ![i] =
                                     M([workflows[i].m EXCEPT !["args"] = newargs])]
                            ELSE workflows]

---------------------------------------------------------------------------
(* Inputs of the normalisation harness *)

\* a dict with one key
Entry(key, v) == key :> v

\* another workflow of the project, listed before the one the requests name
OtherWorkflow == M(Entry("name", S("wf2")) @@ Entry("schedule", S("cron")))

NestedArgs == M(Entry("a", S("1")) @@ Entry("e", S("")) @@ Entry("n", M(Entry("x", S("7")))))

\* the stored dicts of workflow wf1: a key is present only when the field was set,
\* and may be present with None
M_Stored ==
    { M(Entry("name", S("wf1")) @@ sch @@ ar @@ im @@ tt) :
        sch \in {EmptyFn, Entry("schedule", None), Entry("schedule", S("cron"))},
        ar \in {EmptyFn, Entry("args", None), Entry("args", EmptyDict),
                Entry("args", M(Entry("a", S("1")))), Entry("args", NestedArgs)},
        im \in {EmptyFn, Entry("image", S("img1"))},
        tt \in {EmptyFn, Entry("ttl", S("5"))} }

M_Projects == { <<OtherWorkflow, w>> : w \in M_Stored }

\* spec.dict() of an override: every field is a key, None when not given
M_Overrides ==
    { M([name |-> S(n), schedule |-> sch, image |-> im, args |-> ar, ttl |-> tt]) :
        n \in {"", "wf1", "wf9"},
        sch \in {None, S(""), S("cron2"), M(Entry("minute", S("5")))},
        ar \in {None, EmptyDict, M(Entry("a", S("0"))),
                M(Entry("a", S("2")) @@ Entry("b", S("3"))),
                M(Entry("n", M(Entry("x", S("")) @@ Entry("y", S("8")))))},
        im \in {None, S("img2")},
        tt \in {None, S("0")} }
    \cup { WorkflowSpec(w) : w \in M_Stored }

M_Arguments == {None, EmptyDict, M(Entry("a", S("0"))),
                M(Entry("a", S("")) @@ Entry("b", S("2"))), M(Entry("z", S("9")))}

M_Names == {"wf1", "wf2", "missing"}

NoOutcome == [err |-> "", spec |-> None]

MergeIdle ==
    /\ m_pc = "off"
    /\ m_project = <<>>
    /\ m_before = <<>>
    /\ m_name = ""
    /\ m_spec = None
    /\ m_arguments = None
    /\ m_out = NoOutcome
    /\ m_again = None

\* what the caller of get_workflow_id holds before the handler has answered
NoResult == [kind |-> "none", reason |-> "", workflow_id |-> ""]

RefIdle ==
    /\ runs = EmptyFn
    /\ g_pc = "off"
    /\ g_reference = <<>>
    /\ g_name = ""
    /\ g_engine = ""
    /\ g_kind = <<>>
    /\ g_uid = <<>>
    /\ g_calls = <<>>
    /\ g_result = NoResult
    /\ history = <<>>
    /\ nres = 0

\* the response before the handler has produced one
NoResponse == [kind |-> "none", reason |-> "", name |-> None, status |-> None,
               run_id |-> None, action |-> "", schedule |-> None]

NoRequest == [spec |-> None, arguments |-> None, run_name |-> None]

NoProject == [workflows |-> <<>>, default_image |-> None]

\* nothing was sent to the chief
NoPayload == [name |-> "", json |-> NoRequest]

NoSubmission == [name |-> "", request |-> NoRequest]

ProtoIdle ==
    /\ store = NoProject
    /\ role = "chief"
    /\ origin = "chief"
    /\ pc = "off"
    /\ project = NoProject
    /\ name = ""
    /\ request = NoRequest
    /\ wfspec = None
    /\ runner = None
    /\ calls = <<>>
    /\ response = NoResponse
    /\ registered = {}
    /\ nsub = 0
    /\ received = NoSubmission
    /\ payload = NoPayload
    /\ chief_response = NoResponse

---------------------------------------------------------------------------
(* The normalisation harness: one call of                                  *)
(* _fill_workflow_missing_fields_from_project on a project object, then    *)
(* the same override merged once more onto the spec it returned            *)

MInit ==
    /\ ProtoIdle
    /\ RefIdle
    /\ m_pc = "ready"
    /\ m_project \in M_Projects
    /\ m_before = m_project
    /\ m_name = ""
    /\ m_spec = None
    /\ m_arguments = None
    /\ m_out = NoOutcome
    /\ m_again = None

Normalize ==
    /\ m_pc = "ready"
    /\ \E nm \in M_Names, spec \in M_Overrides \cup {None}, arguments \in M_Arguments,
          shares \in BOOLEAN :
         LET out == _fill_workflow_missing_fields_from_project(
                        m_project, nm, spec, arguments, shares)
         IN  /\ m_name' = nm
             /\ m_spec' = spec
             /\ m_arguments' = arguments
             /\ m_before' = m_project
             /\ m_project' = out.workflows
             /\ m_out' = [err |-> out.err, spec |-> out.spec]
    /\ m_pc' = "returned"
    /\ UNCHANGED m_again
    /\ UNCHANGED <<protoVars, refVars>>

Remerge ==
    /\ m_pc = "returned"
    /\ m_out.err = ""
    /\ SpecGiven(m_spec)
    /\ m_again' = _update_dict(m_out.spec, m_spec)
    /\ m_pc' = "remerged"
    /\ UNCHANGED <<m_project, m_before, m_name, m_spec, m_arguments, m_out>>
    /\ UNCHANGED <<protoVars, refVars>>

MNext == Normalize \/ Remerge

MergeSpec == MInit /\ [][MNext]_vars

---------------------------------------------------------------------------
(* Properties of the normalisation (checked under MergeSpec) *)

Returned == m_pc \in {"returned", "remerged"}

Found == _get_workflow_by_name(m_before, m_name) # 0

\* the stored dict the call looked up
StoredWf == m_before[_get_workflow_by_name(m_before, m_name)]

\* None, the empty string, 0, the empty mapping
IsEmptyValue(v) == v \in {None, S(""), S("0"), EmptyDict}

\* C4: non-destructive overlay.  In the spec returned for an override, a field
\* whose override value is None, "", 0 or {} has the stored value: a set stored
\* field is never replaced by an empty value.  (A field the stored dict has no
\* key for is unset before and empty after: None, or {} when the override gave
\* {}.  With an argument overlay, the stored args entries the overlay does not
\* name are the ones kept.)
C4_NonDestructiveOverlay ==
    (Returned /\ m_out.err = "" /\ SpecGiven(m_spec)) =>
        \A f \in Fields :
            IsEmptyValue(m_spec.m[f]) =>
                LET sv == Get(StoredWf, f, None)
                    got == m_out.spec.m[f]
                IN  IF f = "args" /\ Truthy(m_arguments)
                    THEN IsMapping(sv) =>
                            \A key \in DOMAIN sv.m \ DOMAIN m_arguments.m :
                                key \in DOMAIN got.m /\ got.m[key] = sv.m[key]
                    ELSE \/ got = sv
                         \/ /\ f \notin DOMAIN StoredWf.m
                            /\ m_spec.m[f] = EmptyDict
                            /\ got = EmptyDict

C4_Witness ==
    /\ Returned /\ m_out.err = "" /\ SpecGiven(m_spec) /\ ~Truthy(m_arguments)
    /\ m_spec.m["name"] = S("") /\ m_spec.m["schedule"] = S("")
    /\ m_spec.m["ttl"] = S("0") /\ m_spec.m["args"] = EmptyDict
    /\ m_spec.m["image"] = None
    /\ \A f \in Fields : f \in DOMAIN StoredWf.m /\ Truthy(StoredWf.m[f])
    /\ m_out.spec = WorkflowSpec(StoredWf)

\* C5: argument overlay precedence.  Every key of a non-empty argument overlay
\* is in the returned spec's args with the overlay's value, falsy or not and
\* whatever the stored or override args held; the other keys of the merged
\* args are kept.
C5_ArgumentOverlayPrecedence ==
    (Returned /\ m_out.err = "" /\ Truthy(m_arguments)) =>
        LET got == m_out.spec.m["args"]
            merged == _fill_workflow_missing_fields_from_project(
                          m_before, m_name, m_spec, None, FALSE).spec.m["args"]
        IN  /\ IsMapping(got)
            /\ \A key \in DOMAIN m_arguments.m :
                   key \in DOMAIN got.m /\ got.m[key] = m_arguments.m[key]
            /\ IsMapping(merged) =>
                   \A key \in DOMAIN merged.m \ DOMAIN m_arguments.m :
                       key \in DOMAIN got.m /\ got.m[key] = merged.m[key]

C5_Witness ==
    /\ Returned /\ m_out.err = "" /\ SpecGiven(m_spec)
    /\ m_arguments = M(Entry("a", S("")) @@ Entry("b", S("2")))
    /\ Found /\ Get(StoredWf, "args", None) = NestedArgs
    /\ m_spec.m["args"] = M(Entry("a", S("2")) @@ Entry("b", S("3")))
    /\ m_out.spec.m["args"].m["a"] = S("")
    /\ m_out.spec.m["args"].m["b"] = S("2")
    /\ m_out.spec.m["args"].m["e"] = S("")

\* C6: merge idempotence.  With no argument overlay, an override equal to the
\* stored workflow field for field returns the spec returned with no override;
\* and merging an override once more onto the spec it produced changes nothing.
C6_MergeIdempotence ==
    /\ (Returned /\ Found /\ SpecGiven(m_spec) /\ ~Truthy(m_arguments)
            /\ m_spec = WorkflowSpec(StoredWf)) =>
          /\ m_out.err = ""
          /\ m_out.spec = _fill_workflow_missing_fields_from_project(
                              m_before, m_name, None, None, FALSE).spec
    /\ (m_pc = "remerged" /\ ~Truthy(m_arguments)) => m_again = m_out.spec

C6_Witness ==
    /\ m_pc = "remerged" /\ ~Truthy(m_arguments)
    /\ m_spec = WorkflowSpec(StoredWf)
    /\ Get(StoredWf, "args", None) = NestedArgs
    /\ Get(StoredWf, "schedule", None) = S("cron")
    /\ m_again = m_out.spec

\* C7: the call leaves project.spec.workflows as it was, with and without an
\* override
C7_StoredWorkflowUnchanged == Returned => m_project = m_before

\* C16: override precedence and totality.  For a stored workflow found by name
\* and any override, the call returns a spec; with no argument overlay, a field
\* whose override value is a non-empty scalar has that value, a field whose
\* override value is a mapping has each of its non-empty scalar entries (also
\* when the stored value is None or absent), and any other field has the stored
\* value
C16_OverridePrecedenceTotal ==
    (Returned /\ Found /\ SpecGiven(m_spec) /\ ~Truthy(m_arguments)) =>
        /\ m_out.err = ""
        /\ \A f \in Fields :
               LET ov == m_spec.m[f]
                   got == m_out.spec.m[f]
               IN  IF IsMapping(ov)
                   THEN /\ IsMapping(got)
                        /\ \A key \in DOMAIN ov.m :
                               (~IsMapping(ov.m[key]) /\ Truthy(ov.m[key])) =>
                                   key \in DOMAIN got.m /\ got.m[key] = ov.m[key]
                   ELSE IF Truthy(ov) THEN got = ov
                   ELSE got = Get(StoredWf, f, None)

---------------------------------------------------------------------------
(* Inputs of the submissions *)

MaxSubmissions == 2

Roles == {"chief", "worker"}

\* mlrun.mlconf.default_base_image
default_base_image == S("mlrun/mlrun")

P_Stored ==
    { M(Entry("name", S("wf1")) @@ sch @@ ar @@ im) :
        sch \in {EmptyFn, Entry("schedule", S("cron"))},
        ar \in {EmptyFn, Entry("args", M(Entry("a", S("1"))))},
        im \in {EmptyFn, Entry("image", S("img1"))} }

P_Stores == { [workflows |-> <<OtherWorkflow, w>>, default_image |-> di] :
                w \in P_Stored, di \in {None, S("pimg")} }

P_Overrides ==
    { M([name |-> S(n), schedule |-> sch, image |-> im, args |-> None, ttl |-> None]) :
        n \in {"", "wf1", "wf9"},
        sch \in {None, S(""), S("cron2")},
        im \in {None, S("img2")} }

P_Arguments == {None, M(Entry("b", S("2")))}

P_RunNames == {None, S("r1")}

P_Names == {"wf1", "missing"}

Uids == {"u1", "u2"}

---------------------------------------------------------------------------
(* submit_workflow, lines 47-201, as the steps between its awaits *)

\* a call to a collaborator, made by the node running the handler: the operation, its
\* argument of interest, whether it returned (ok) or raised, and the uid a run returned
Call(op, arg, ok, ret) == [op |-> op, node |-> role, arg |-> arg, ok |-> ok, ret |-> ret]

\* line 119: `return await chief_client.submit_workflow(...)`, what the forwarding
\* node hands to its caller when the chief answered resp
ForwardedResponse(resp) == resp

\* the handler ends with this response (returned, or raised as an HTTP error); when
\* it is the chief's handler of a forwarded submission, the forwarding node returns
Stop(resp) ==
    /\ pc' = "done"
    /\ IF role # origin
       THEN chief_response' = resp /\ response' = ForwardedResponse(resp)
       ELSE response' = resp /\ UNCHANGED chief_response

\* what the verifier raises when it refuses
Forbidden == [NoResponse EXCEPT !.kind = "error", !.reason = "forbidden"]

\* log_and_raise(reason=...)
log_and_raise(reason, workflow_name, workflow_action) ==
    [NoResponse EXCEPT !.kind = "error", !.reason = reason,
                       !.name = workflow_name, !.action = workflow_action]

\* an exception that leaves the handler as it was raised
Uncaught(what) == [NoResponse EXCEPT !.kind = "error", !.reason = what]

\* lines 80-85: the handler starts on a node and fetches the project
Submit ==
    /\ pc = "idle"
    /\ nsub < MaxSubmissions
    /\ \E node \in Roles, nm \in P_Names, spec \in P_Overrides \cup {None},
          arguments \in P_Arguments, run_name \in P_RunNames :
         /\ origin' = node
         /\ role' = node
         /\ name' = nm
         /\ request' = [spec |-> spec, arguments |-> arguments, run_name |-> run_name]
    /\ received' = [name |-> name', request |-> request']
    /\ project' = store
    /\ nsub' = nsub + 1
    /\ pc' = "perm_run"
    /\ UNCHANGED <<store, wfspec, runner, calls, response, registered, payload,
                   chief_response>>
    /\ UNCHANGED <<mergeVars, refVars>>

\* as PermissionCheck, with the verifier's refusal not stopping the handler
PermissionCheckNoRaise(at, op, resource_name, next) ==
    /\ pc = at
    /\ \E ok \in BOOLEAN : calls' = Append(calls, Call(op, resource_name, ok, ""))
    /\ pc' = next
    /\ UNCHANGED <<store, role, origin, project, name, request, wfspec, runner,
                   response, registered, nsub, received, payload, chief_response>>
    /\ UNCHANGED <<mergeVars, refVars>>

\* one query_project_resource_permissions call: it returns, or raises and ends the handler
PermissionCheck(at, op, resource_name, next) ==
    /\ pc = at
    /\ \E ok \in BOOLEAN :
         /\ calls' = Append(calls, Call(op, resource_name, ok, ""))
         /\ IF ok THEN pc' = next /\ UNCHANGED <<response, chief_response>>
            ELSE Stop(Forbidden)
    /\ UNCHANGED <<store, role, origin, project, name, request, wfspec, runner,
                   registered, nsub, received, payload>>
    /\ UNCHANGED <<mergeVars, refVars>>

\* lines 87-94: create on the run, resource_name = workflow_request.run_name or ""
CheckCreateRun ==
    PermissionCheck("perm_run", "create_run",
                    IF Truthy(request.run_name) THEN request.run_name.s ELSE "",
                    "perm_read")

\* lines 95-102: read on the workflow named in the path
CheckReadWorkflow ==
    PermissionCheck("perm_read", "read_workflow", name, "perm_create")

\* lines 103-111: create on getattr(workflow_request.spec, "name", name)
CheckCreateWorkflow ==
    PermissionCheck("perm_create", "create_workflow",
                    IF SpecGiven(request.spec) THEN request.spec.m["name"].s ELSE name,
                    "route")

\* as ForwardPayload, with the request sent after the normalisation of line 126
ForwardPayloadNormalized ==
    LET out == _fill_workflow_missing_fields_from_project(
                   project.workflows, name, request.spec, request.arguments, FALSE)
    IN  [name |-> name,
         json |-> IF out.err = "" THEN [request EXCEPT !.spec = out.spec] ELSE request]

\* lines 119-124: name=name, json=workflow_request.dict()
ForwardPayload == [name |-> name, json |-> request]

\* lines 112-124: re-route to the chief in case of schedule.  The chief runs the
\* handler on the request as received, and its response is what is returned.
Route ==
    /\ pc = "route"
    /\ LET requested == _is_requested_schedule(name, request.spec, project.workflows)
       IN  IF requested = "not_found"
           THEN /\ Stop(log_and_raise("not_found", None, ""))
                /\ UNCHANGED <<role, project, calls, name, request, payload>>
           ELSE IF requested = "yes" /\ role # "chief"
           THEN /\ calls' = Append(calls, Call("forward", name, TRUE, ""))
                /\ payload' = ForwardPayload
                /\ role' = "chief"
                /\ name' = payload'.name
                /\ request' = WorkflowRequest(payload'.json)
                /\ project' = store
                /\ pc' = "perm_run"
                /\ UNCHANGED <<response, chief_response>>
           ELSE /\ pc' = "fill"
                /\ UNCHANGED <<role, project, calls, name, request, payload,
                               response, chief_response>>
    /\ UNCHANGED <<store, origin, wfspec, runner, registered, nsub, received>>
    /\ UNCHANGED <<mergeVars, refVars>>

\* lines 126-133
Fill ==
    /\ pc = "fill"
    /\ \E shares \in BOOLEAN :
         LET out == _fill_workflow_missing_fields_from_project(
                        project.workflows, name, request.spec, request.arguments, shares)
         IN  IF out.err = "not_found"
             THEN Stop(log_and_raise("not_found", None, "")) /\ UNCHANGED <<wfspec, project>>
             ELSE IF out.err # ""
             THEN Stop(Uncaught(out.err)) /\ UNCHANGED <<wfspec, project>>
             ELSE /\ wfspec' = out.spec
                  /\ project' = [project EXCEPT !.workflows = out.workflows]
                  /\ pc' = "create_runner"
                  /\ UNCHANGED <<response, chief_response>>
    /\ UNCHANGED <<store, role, origin, name, request, runner, calls, registered, nsub,
                   received, payload>>
    /\ UNCHANGED <<mergeVars, refVars>>

\* as RunnerImage, with the project's default image left out of the chain
RunnerImageNoProjectDefault ==
    IF Truthy(wfspec.m["image"]) THEN wfspec.m["image"] ELSE default_base_image

\* lines 146-148: workflow_spec.image or project.spec.default_image or the global default
RunnerImage ==
    IF Truthy(wfspec.m["image"]) THEN wfspec.m["image"]
    ELSE IF Truthy(project.default_image) THEN project.default_image
    ELSE default_base_image

\* lines 139-142: run_name or default_workflow_runner_name.format(workflow_spec.name)
RunnerName ==
    IF Truthy(request.run_name) THEN request.run_name
    ELSE S("workflow-runner-" \o wfspec.m["name"].s)

\* lines 137-149: create_runner, outside the try block of line 165
CreateRunner ==
    /\ pc = "create_runner"
    /\ \E ok \in BOOLEAN :
         /\ calls' = Append(calls, Call("create_runner", RunnerImage.s, ok, ""))
         /\ IF ok
            THEN runner' = RunnerName /\ pc' = "execute"
                    /\ UNCHANGED <<response, chief_response>>
            ELSE Stop(Uncaught("create_runner_error")) /\ UNCHANGED runner
    /\ UNCHANGED <<store, role, origin, project, name, request, wfspec, registered, nsub,
                   received, payload>>
    /\ UNCHANGED <<mergeVars, refVars>>

\* as Outcome, with log_and_raise logging only: the handler goes on to line 195
OutcomeNoRaise(ok, uid) ==
    LET scheduling == Truthy(wfspec.m["schedule"])
    IN  [kind |-> "ok", reason |-> "", name |-> wfspec.m["name"],
         status |-> IF ~ok THEN None
                    ELSE IF scheduling THEN S("scheduled") ELSE S("running"),
         run_id |-> IF ok /\ ~scheduling THEN S(uid) ELSE None,
         action |-> "", schedule |-> wfspec.m["schedule"]]

\* as Outcome, with the status and the run id of an immediate run on both paths
OutcomeOfRun(ok, uid) ==
    LET scheduling == Truthy(wfspec.m["schedule"])
        workflow_action == IF scheduling THEN "schedule" ELSE "run"
    IN  IF ~ok
        THEN log_and_raise("Workflow failed", wfspec.m["name"], workflow_action)
        ELSE [kind |-> "ok", reason |-> "", name |-> wfspec.m["name"],
              status |-> S("running"), run_id |-> S(uid),
              action |-> "", schedule |-> wfspec.m["schedule"]]

\* lines 162-201: the response after the schedule or run call returned (ok, with the
\* run's uid) or raised
Outcome(ok, uid) ==
    LET scheduling == Truthy(wfspec.m["schedule"])
        workflow_action == IF scheduling THEN "schedule" ELSE "run"
    IN  IF ~ok
        THEN log_and_raise("Workflow failed", wfspec.m["name"], workflow_action)
        ELSE [kind |-> "ok", reason |-> "", name |-> wfspec.m["name"],
              status |-> IF scheduling THEN S("scheduled") ELSE S("running"),
              run_id |-> IF scheduling THEN None ELSE S(uid),
              action |-> "", schedule |-> wfspec.m["schedule"]]

\* lines 162-201
Execute ==
    /\ pc = "execute"
    /\ \E ok \in BOOLEAN, uid \in Uids :
         LET workflow_action == IF Truthy(wfspec.m["schedule"]) THEN "schedule" ELSE "run"
         IN  /\ calls' = Append(calls, Call(workflow_action, runner.s, ok,
                                           IF ok /\ workflow_action = "run" THEN uid ELSE ""))
             /\ registered' = IF workflow_action = "schedule" /\ ok
                              THEN registered \cup {role} ELSE registered
             /\ Stop(Outcome(ok, uid))
    /\ UNCHANGED <<store, role, origin, project, name, request, wfspec, runner, nsub,
                   received, payload>>
    /\ UNCHANGED <<mergeVars, refVars>>

\* the response has gone to the caller; the request's objects are dropped
Return ==
    /\ pc = "done"
    /\ pc' = "idle"
    /\ role' = "chief"
    /\ origin' = "chief"
    /\ project' = NoProject
    /\ name' = ""
    /\ request' = NoRequest
    /\ wfspec' = None
    /\ runner' = None
    /\ calls' = <<>>
    /\ response' = NoResponse
    /\ received' = NoSubmission
    /\ payload' = NoPayload
    /\ chief_response' = NoResponse
    /\ UNCHANGED <<store, registered, nsub>>
    /\ UNCHANGED <<mergeVars, refVars>>

Init ==
    /\ store \in P_Stores
    /\ role = "chief"
    /\ origin = "chief"
    /\ pc = "idle"
    /\ project = NoProject
    /\ name = ""
    /\ request = NoRequest
    /\ wfspec = None
    /\ runner = None
    /\ calls = <<>>
    /\ response = NoResponse
    /\ registered = {}
    /\ nsub = 0
    /\ received = NoSubmission
    /\ payload = NoPayload
    /\ chief_response = NoResponse
    /\ MergeIdle
    /\ RefIdle

Next ==
    \/ Submit
    \/ CheckCreateRun
    \/ CheckReadWorkflow
    \/ CheckCreateWorkflow
    \/ Route
    \/ Fill
    \/ CreateRunner
    \/ Execute
    \/ Return

Spec == Init /\ [][Next]_vars

---------------------------------------------------------------------------
(* Properties of the submissions (checked under Spec) *)

InFlight == pc \notin {"idle", "off"}

BackendOps == {"create_runner", "schedule", "run"}

OutwardOps == BackendOps \cup {"forward"}

PermOps == {"create_run", "read_workflow", "create_workflow"}

IsBackendCall(c) == c.op \in BackendOps

\* the spec the merge of the override onto the stored workflow gives
EffectiveSpec ==
    _fill_workflow_missing_fields_from_project(store.workflows, name, request.spec, None, FALSE)

\* C1: a submission with a non-null effective schedule received on a node that is
\* not the chief is forwarded, and that node makes no create_runner, schedule or
\* run call
C1_DelegationCorrectness ==
    (InFlight /\ origin = "worker" /\ EffectiveSpec.err = ""
        /\ EffectiveSpec.spec.m["schedule"] # None) =>
        /\ \A i \in DOMAIN calls : calls[i].node = "worker" => calls[i].op \notin BackendOps
        /\ pc \in {"fill", "create_runner", "execute"} => role = "chief"

\* C2: every WorkflowRunners().schedule call is made on the chief
C2_SingleWriterSchedule ==
    /\ registered \subseteq {"chief"}
    /\ \A i \in DOMAIN calls : calls[i].op = "schedule" => calls[i].node = "chief"

\* the three permission checks of node n were made, in order, and passed, before call i
PermsPassedBefore(i, n) ==
    \E j1, j2, j3 \in 1..(i - 1) :
        /\ j1 < j2 /\ j2 < j3
        /\ calls[j1].op = "create_run" /\ calls[j1].node = n /\ calls[j1].ok
        /\ calls[j2].op = "read_workflow" /\ calls[j2].node = n /\ calls[j2].ok
        /\ calls[j3].op = "create_workflow" /\ calls[j3].node = n /\ calls[j3].ok

\* C3: a handler makes a forward, create_runner, schedule or run call only after
\* its three permission checks passed; a check that fails is the last call of the
\* submission, whose handler made no such call and ends with the verifier's error
C3_PermissionsBeforeMutation ==
    /\ \A i \in DOMAIN calls :
           calls[i].op \in OutwardOps => PermsPassedBefore(i, calls[i].node)
    /\ \A i \in DOMAIN calls :
           (calls[i].op \in PermOps /\ ~calls[i].ok) =>
               /\ i = Len(calls)
               /\ pc = "done"
               /\ response = Forbidden
               /\ \A j \in DOMAIN calls :
                      calls[j].op \in OutwardOps => calls[j].node # calls[i].node

C3_Witness ==
    /\ pc = "done" /\ response.kind = "ok" /\ origin = "worker"
    /\ Len(calls) = 9
    /\ calls[4].op = "forward" /\ calls[4].node = "worker"
    /\ calls[8].op = "create_runner" /\ calls[9].op = "schedule"

\* the project has no workflow of the submitted name
Missing == \A i \in DOMAIN store.workflows : store.workflows[i].m["name"] # S(name)

\* C8: a submission naming a workflow the project does not have makes no
\* create_runner, run or schedule call and fails with the not-found error, with or
\* without an override and on either role (a submission one of the permission
\* checks refuses ends with the verifier's error before the lookup)
C8_MissingWorkflowFails ==
    (InFlight /\ Missing) =>
        /\ \A i \in DOMAIN calls : calls[i].op \notin BackendOps
        /\ pc \notin {"create_runner", "execute"}
        /\ pc = "done" =>
              /\ response.kind = "error"
              /\ \/ response.reason = "not_found"
                 \/ response = Forbidden /\ ~calls[Len(calls)].ok

C8_Witness ==
    /\ pc = "done" /\ Missing /\ SpecGiven(request.spec)
    /\ origin = "worker" /\ role = "chief"
    /\ response.reason = "not_found"
    /\ \E i \in DOMAIN calls : calls[i].op = "forward"

\* C9: a response is returned after exactly one create_runner and then exactly
\* one schedule or run call, chosen by the normalized schedule, all on the node
\* that answers; "scheduled" comes with no run id, "running" with the uid the
\* run returned; the status is never unset
C9_ResponseShape ==
    (pc = "done" /\ response.kind = "ok") =>
        LET b == SelectSeq(calls, IsBackendCall)
        IN  /\ Len(b) = 2
            /\ b[1].op = "create_runner" /\ b[1].ok /\ b[1].node = role
            /\ b[2].op = (IF Truthy(wfspec.m["schedule"]) THEN "schedule" ELSE "run")
            /\ b[2].ok /\ b[2].node = role
            /\ b[2].op = "schedule" =>
                   response.status = S("scheduled") /\ response.run_id = None
            /\ b[2].op = "run" =>
                   response.status = S("running") /\ response.run_id = S(b[2].ret)
                       /\ b[2].ret \in Uids
            /\ response.status # None
            /\ response.run_id # None <=> response.status = S("running")

C9_Witness ==
    /\ pc = "done" /\ response.kind = "ok"
    /\ response.status = S("running") /\ response.run_id = S("u2")
    /\ \E i \in DOMAIN calls : calls[i].op = "run" /\ calls[i].ret = "u2"

\* C10: an exception of create_runner, schedule or run reaches the caller as the
\* aggregated failure with the workflow name and the action of the branch taken
C10_AggregatedFailure ==
    (pc = "done" /\ \E i \in DOMAIN calls : calls[i].op \in BackendOps /\ ~calls[i].ok) =>
        /\ response.kind = "error"
        /\ response.reason = "Workflow failed"
        /\ response.name = wfspec.m["name"]
        /\ response.action = (IF Truthy(wfspec.m["schedule"]) THEN "schedule" ELSE "run")

\* the stored workflow of the submitted name, as the project store holds it
StoredOf ==
    store.workflows[CHOOSE i \in DOMAIN store.workflows :
                        store.workflows[i].m["name"] = S(name)]

\* C13: the forward to the chief is made only by a node that is not the chief,
\* and only for a submission whose normalized spec has a schedule: one that
\* would run immediately is never forwarded, whatever schedule value the
\* override carries
C13_ForwardOnlyForSchedule ==
    \A i \in DOMAIN calls :
        calls[i].op = "forward" =>
            /\ calls[i].node # "chief"
            /\ origin # "chief"
            /\ EffectiveSpec.err = "" => Truthy(EffectiveSpec.spec.m["schedule"])

\* the first non-empty of the images in the given order
FirstImage(images) ==
    LET set == {i \in DOMAIN images : Truthy(images[i])}
    IN  images[CHOOSE i \in set : \A j \in set : i <= j]

OverrideImage == IF SpecGiven(request.spec) THEN request.spec.m["image"] ELSE None

\* C17 as claimed: the image passed to create_runner is the override's image,
\* else the project's default image, else the global default base image
C17_ImageChainAsClaimed ==
    \A i \in DOMAIN calls :
        calls[i].op = "create_runner" =>
            calls[i].arg = FirstImage(<<OverrideImage, store.default_image,
                                        S("mlrun/mlrun")>>).s

\* C17, amended: the image passed to create_runner is the override's image, else
\* the stored workflow's own image, else the project's default image, else the
\* global default base image
C17_ImageChain ==
    \A i \in DOMAIN calls :
        calls[i].op = "create_runner" =>
            calls[i].arg = FirstImage(<<OverrideImage, Get(StoredOf, "image", None),
                                        store.default_image, S("mlrun/mlrun")>>).s

C17_Witness ==
    /\ pc = "execute"
    /\ SpecGiven(request.spec) /\ request.spec.m["image"] = None
    /\ Get(StoredOf, "image", None) = None
    /\ store.default_image = S("pimg")
    /\ calls[Len(calls)].op = "create_runner" /\ calls[Len(calls)].arg = "pimg"

\* C19: for a submission that reaches the orchestrator, the resource name of the
\* create-permission check on the workflow is the name of the normalized spec
C19_CheckedNameIsExecutedName ==
    (InFlight /\ wfspec # None) =>
        \A i \in DOMAIN calls :
            (calls[i].op = "create_workflow" /\ calls[i].node = role) =>
                calls[i].arg = wfspec.m["name"].s

\* the submission in flight was forwarded: the chief runs the handler for another node
Forwarded == InFlight /\ role # origin

\* C14: when a submission is forwarded, the payload sent to the chief is the
\* request as the forwarding node received it (spec not merged, arguments not
\* overlaid), the chief works on that same request, the forwarding node has
\* normalized nothing and called no backend, and the caller gets the chief's
\* response as the chief gave it
C14_ForwardedVerbatim ==
    Forwarded =>
        /\ payload = [name |-> received.name, json |-> received.request]
        /\ name = received.name /\ request = received.request
        /\ \A i \in DOMAIN calls :
               calls[i].node = origin => calls[i].op \in PermOps \cup {"forward"}
        /\ pc \in {"perm_run", "perm_read", "perm_create", "route"} => wfspec = None
        /\ pc = "done" => response = chief_response

C14_Witness ==
    /\ Forwarded /\ pc = "done"
    /\ SpecGiven(received.request.spec) /\ received.request.arguments # None
    /\ \E i \in DOMAIN store.workflows :
          /\ store.workflows[i].m["name"] = S(received.name)
          /\ "args" \in DOMAIN store.workflows[i].m
    /\ response.kind = "ok" /\ response = chief_response

\* the calls of the submission in flight with this operation
CallsOf(op) == {i \in DOMAIN calls : calls[i].op = op}

C15_OnceAndScheduled ==
    /\ Cardinality(CallsOf("forward")) <= 1
    /\ \A i \in CallsOf("forward") : calls[i].node # "chief"
    /\ Forwarded => role = "chief" /\ CallsOf("forward") # {}
    /\ (Forwarded /\ pc = "done" /\ wfspec # None /\ Truthy(wfspec.m["schedule"])
          /\ calls[Len(calls)].ok) =>
            /\ calls[Len(calls)] = [op |-> "schedule", node |-> "chief",
                                    arg |-> calls[Len(calls)].arg, ok |-> TRUE,
                                    ret |-> calls[Len(calls)].ret]
            /\ CallsOf("run") = {}
            /\ response.kind = "ok"
            /\ response.status = S("scheduled")
            /\ response.run_id = None

\* every handler that is scheduled takes its next step
LiveSpec == Init /\ [][Next]_vars /\ WF_vars(Next)

---------------------------------------------------------------------------
(* get_workflow_id, lines 301-356, as the steps between its awaits, with   *)
(* the runner jobs of the execution backend that log their workflow id     *)

\* longest reference a client sends
MaxTokenLen == 3

\* get_workflow_id requests received
MaxResolves == 2

\* the characters of a reference: two ordinary ones and the separator
Alphabet == {"r", "u", ":"}

RECURSIVE Strings(_)

\* the strings of at most n characters
Strings(n) ==
    IF n = 0 THEN {<<>>}
    ELSE LET shorter == Strings(n - 1)
         IN  shorter \cup {Append(s, c) : s \in shorter, c \in Alphabet}

\* the references a client may send, well-formed or not
Tokens == Strings(MaxTokenLen)

\* a kind or a uid: not empty, and without the separator
IsPart(s) == s # <<>> /\ \A i \in DOMAIN s : s[i] # ":"

\* the reference token "<kind>:<uid>"
encode(kind, uid) == kind \o <<":">> \o uid

BadReference == [kind |-> "error", reason |-> "BadReference", workflow_id |-> ""]

\* as parse_reference, with a reference that has no separator taken as a bare uid
parse_reference_bare_uid(reference) ==
    LET colons == {i \in DOMAIN reference : reference[i] = ":"}
    IN  IF colons = {}
        THEN [err |-> FALSE, kind |-> <<>>, uid |-> reference]
        ELSE LET at == CHOOSE i \in colons : \A j \in colons : i <= j
                 kind == SubSeq(reference, 1, at - 1)
                 uid == SubSeq(reference, at + 1, Len(reference))
             IN  IF IsPart(kind) /\ IsPart(uid)
                 THEN [err |-> FALSE, kind |-> kind, uid |-> uid]
                 ELSE [err |-> TRUE, kind |-> <<>>, uid |-> <<>>]

\* parse_reference(reference): the (kind, uid) pair of a token, split at its
\* separator; fails on a string that is not "<kind>:<uid>"
parse_reference(reference) ==
    LET colons == {i \in DOMAIN reference : reference[i] = ":"}
    IN  IF colons = {}
        THEN [err |-> TRUE, kind |-> <<>>, uid |-> <<>>]
        ELSE LET at == CHOOSE i \in colons : \A j \in colons : i <= j
                 kind == SubSeq(reference, 1, at - 1)
                 uid == SubSeq(reference, at + 1, Len(reference))
             IN  IF IsPart(kind) /\ IsPart(uid)
                 THEN [err |-> FALSE, kind |-> kind, uid |-> uid]
                 ELSE [err |-> TRUE, kind |-> <<>>, uid |-> <<>>]

\* the uids the backend gives to the runs it starts
RunUids == {<<"u">>}

\* the ids the workflow engine gives to the workflows the runner jobs start
WorkflowIds == {"wf-789", "wf-790"}

\* engine: "kfp" is the default of line 310, "local" runs in the process
Engines == {"kfp", "local"}

G_Names == {"wf1"}

Pending == [kind |-> "pending", reason |-> "not-yet-available", workflow_id |-> ""]

Resolved(id) == [kind |-> "ok", reason |-> "", workflow_id |-> id]

NotFound == [kind |-> "error", reason |-> "NotFound", workflow_id |-> ""]

Unsupported == [kind |-> "error", reason |-> "Unsupported", workflow_id |-> ""]

\* as WorkflowRunners_get_workflow_id, with a nullable return: the id of the run
\* record as it is, empty before the runner job has logged it
WorkflowRunners_get_workflow_id_nullable(uid, engine) ==
    IF engine # "kfp" THEN Unsupported
    ELSE IF uid \notin DOMAIN runs THEN NotFound
    ELSE Resolved(runs[uid].workflow_id)

\* WorkflowRunners().get_workflow_id(uid, project, engine, db_session): the workflow
\* id logged in the run record of the runner job
WorkflowRunners_get_workflow_id(uid, engine) ==
    IF engine # "kfp" THEN Unsupported
    ELSE IF uid \notin DOMAIN runs THEN NotFound
    ELSE IF runs[uid].workflow_id = "" THEN Pending
    ELSE Resolved(runs[uid].workflow_id)

RInit ==
    /\ ProtoIdle
    /\ MergeIdle
    /\ runs = EmptyFn
    /\ g_pc = "idle"
    /\ g_reference = <<>>
    /\ g_name = ""
    /\ g_engine = ""
    /\ g_kind = <<>>
    /\ g_uid = <<>>
    /\ g_calls = <<>>
    /\ g_result = NoResult
    /\ history = <<>>
    /\ nres = 0

\* lines 176-185 and 195-201: an immediate run was triggered and its uid returned
Trigger ==
    /\ \E uid \in RunUids :
         /\ uid \notin DOMAIN runs
         /\ runs' = runs @@ (uid :> [workflow_id |-> ""])
    /\ UNCHANGED <<g_pc, g_reference, g_name, g_engine, g_kind, g_uid, g_calls, g_result,
                   history, nres>>
    /\ UNCHANGED <<protoVars, mergeVars>>

\* lines 314-318: the running function logs the workflow id it created, once
LogWorkflowId ==
    /\ \E uid \in DOMAIN runs, id \in WorkflowIds :
         /\ runs[uid].workflow_id = ""
         /\ runs' = [runs EXCEPT ![uid].workflow_id = id]
    /\ UNCHANGED <<g_pc, g_reference, g_name, g_engine, g_kind, g_uid, g_calls, g_result,
                   history, nres>>
    /\ UNCHANGED <<protoVars, mergeVars>>

\* lines 301-310: a request arrives
Resolve ==
    /\ g_pc = "idle"
    /\ nres < MaxResolves
    /\ g_reference' \in Tokens
    /\ g_name' \in G_Names
    /\ g_engine' \in Engines
    /\ nres' = nres + 1
    /\ g_pc' = "parse"
    /\ UNCHANGED <<runs, g_kind, g_uid, g_calls, g_result, history>>
    /\ UNCHANGED <<protoVars, mergeVars>>

\* line 332: _, uid = parse_reference(reference)
ParseReference ==
    /\ g_pc = "parse"
    /\ LET parsed == parse_reference(g_reference)
       IN  IF parsed.err
           THEN g_pc' = "done" /\ g_result' = BadReference /\ UNCHANGED <<g_kind, g_uid>>
           ELSE /\ g_pc' = "perm_run"
                /\ g_kind' = parsed.kind
                /\ g_uid' = parsed.uid
                /\ UNCHANGED g_result
    /\ UNCHANGED <<runs, g_reference, g_name, g_engine, g_calls, history, nres>>
    /\ UNCHANGED <<protoVars, mergeVars>>

\* a call of get_workflow_id to a collaborator
GCall(op, arg, ok) == [op |-> op, arg |-> arg, ok |-> ok]

\* as ReadCheck, with a verifier whose refusal does not raise
ReadCheckNoRaise(at, op, resource_name, next) ==
    /\ g_pc = at
    /\ \E ok \in BOOLEAN :
         /\ g_calls' = Append(g_calls, GCall(op, resource_name, ok))
         /\ g_pc' = next
    /\ UNCHANGED <<runs, g_reference, g_name, g_engine, g_kind, g_uid, g_result,
                   history, nres>>
    /\ UNCHANGED <<protoVars, mergeVars>>

\* await AuthVerifier().query_project_resource_permissions(..., read, auth_info)
ReadCheck(at, op, resource_name, next) ==
    /\ g_pc = at
    /\ \E ok \in BOOLEAN :
         /\ g_calls' = Append(g_calls, GCall(op, resource_name, ok))
         /\ IF ok
            THEN g_pc' = next /\ UNCHANGED g_result
            ELSE g_pc' = "done" /\ g_result' = [NoResult EXCEPT !.kind = "error",
                                                                !.reason = "forbidden"]
    /\ UNCHANGED <<runs, g_reference, g_name, g_engine, g_kind, g_uid, history, nres>>
    /\ UNCHANGED <<protoVars, mergeVars>>

\* lines 333-340
CheckReadRun == ReadCheck("perm_run", "read_run", g_uid, "perm_workflow")

\* lines 341-348
CheckReadWorkflowName == ReadCheck("perm_workflow", "read_workflow", g_name, "query")

\* lines 350-356
Query ==
    /\ g_pc = "query"
    /\ g_calls' = Append(g_calls, GCall("get_workflow_id", g_uid, TRUE))
    /\ g_result' = WorkflowRunners_get_workflow_id(g_uid, g_engine)
    /\ history' = Append(history,
                         [uid |-> g_uid, engine |-> g_engine,
                          known |-> g_uid \in DOMAIN runs,
                          logged |-> IF g_uid \in DOMAIN runs
                                     THEN runs[g_uid].workflow_id ELSE "",
                          result |-> g_result'])
    /\ g_pc' = "done"
    /\ UNCHANGED <<runs, g_reference, g_name, g_engine, g_kind, g_uid, nres>>
    /\ UNCHANGED <<protoVars, mergeVars>>

\* the caller has its answer; the node is ready for the next request
Answer ==
    /\ g_pc = "done"
    /\ g_pc' = "idle"
    /\ g_reference' = <<>>
    /\ g_name' = ""
    /\ g_engine' = ""
    /\ g_kind' = <<>>
    /\ g_uid' = <<>>
    /\ g_calls' = <<>>
    /\ g_result' = NoResult
    /\ UNCHANGED <<runs, history, nres>>
    /\ UNCHANGED <<protoVars, mergeVars>>

RNext ==
    \/ Trigger
    \/ LogWorkflowId
    \/ Resolve
    \/ ParseReference
    \/ CheckReadRun
    \/ CheckReadWorkflowName
    \/ Query
    \/ Answer

RefSpec == RInit /\ [][RNext]_vars

---------------------------------------------------------------------------
(* Properties of the reference resolution (checked under RefSpec) *)

\* the kinds and uids a reference can carry
Parts == {s \in Tokens : IsPart(s)}

\* the handler is past line 332
Parsed == g_pc \in {"perm_run", "perm_workflow", "query", "done"}

\* the reference of the request is the token of some (kind, uid)
WellFormed == \E kind \in Parts, uid \in Parts : g_reference = encode(kind, uid)

\* C11: a query for the uid of a triggered run, with the default engine, that is
\* answered before the runner job logged its workflow id reports the condition
\* not-yet-available (not NotFound, not a success with an empty id); one that is
\* answered after the job logged W returns W; and after a query returned W every
\* later query for the same uid returns W
C11_TwoPhaseResolution ==
    \A i \in DOMAIN history :
        (history[i].known /\ history[i].engine = "kfp") =>
            /\ history[i].logged = "" => history[i].result = Pending
            /\ history[i].logged # "" =>
                   /\ history[i].result.kind = "ok"
                   /\ history[i].result.workflow_id = history[i].logged
            /\ history[i].result.kind = "ok" =>
                   /\ history[i].result.workflow_id \in WorkflowIds
                   /\ \A j \in DOMAIN history :
                          (j > i /\ history[j].uid = history[i].uid
                                 /\ history[j].engine = "kfp") =>
                              history[j].result = history[i].result

C11_Witness ==
    /\ Len(history) = 2
    /\ \A i \in DOMAIN history : history[i].uid = <<"u">> /\ history[i].engine = "kfp"
    /\ history[1].result = Pending
    /\ history[2].result = Resolved("wf-789")
    /\ g_result = Resolved("wf-789")

C12_WitnessRoundTrip ==
    /\ g_pc = "perm_run"
    /\ g_reference = encode(<<"r">>, <<"u">>)
    /\ g_kind = <<"r">> /\ g_uid = <<"u">>

\* the calls get_workflow_id makes when nothing stops it, in order
G_Order == <<"read_run", "read_workflow", "get_workflow_id">>

\* C18: the calls of a resolution are, in this order, the read check on the run
\* with the uid of the reference, the read check on the workflow name and the
\* backend query with that same uid; none is made before the reference is
\* decoded, and each is made only if every call before it passed
C18_ResolveOrder ==
    /\ g_calls # <<>> => (Parsed /\ WellFormed)
    /\ Len(g_calls) <= Len(G_Order)
    /\ \A i \in DOMAIN g_calls :
           /\ g_calls[i].op = G_Order[i]
           /\ g_calls[i].op = "read_workflow" => g_calls[i].arg = g_name
           /\ g_calls[i].op # "read_workflow" =>
                  \E kind \in Parts : g_reference = encode(kind, g_calls[i].arg)
           /\ i < Len(g_calls) => g_calls[i].ok

C18_Witness ==
    /\ g_pc = "done"
    /\ Len(g_calls) = 3
    /\ g_reference = encode(<<"r">>, <<"u">>)
    /\ g_calls[3] = GCall("get_workflow_id", <<"u">>, TRUE)
    /\ g_name = "wf1"
    /\ g_result.kind = "ok"

====
